---- MODULE Spec2Model ----
(***************************************************************************)
(* Reconstruction of nested spans from a swiftc -trace-stats-events CSV.   *)
(*                                                                         *)
(* Recursive mode is analyze_swiftc_trace_csv.py: format_rows_recursively  *)
(* pulls rows from one shared csv reader; every activation of the function *)
(* owns an output_lines list, and an activation suspended at the recursive *)
(* call keeps the event_name and counter_value of the entry row it is      *)
(* waiting on.  One action of the model runs from one fetch of the reader  *)
(* to the next one.                                                        *)
(*                                                                         *)
(* Flat mode is the Stack Reconstructor of the design document, section    *)
(* 4.2; its script is not part of the sources at hand.                     *)
(***************************************************************************)
EXTENDS Integers, Sequences, FiniteSets, TLC

\* ------------------------------------------------------------------ bounds
MaxRows == 4          \* rows in the trace file after the header line

\* --------------------------------------------------------------- constants
MAX_PRINT_DEPTH == 2
MICROS_PER_SECOND == 1000000

WallClock == "Frontend.WallClockMicroseconds"
OtherCounter == "Frontend.NumInstructionsExecuted"

EventNames == {"A", "B"}
CounterNames == {WallClock, OtherCounter}
Phases == {"entry", "exit"}
DelimiterValues == {1000000, 3500000}     \* samples of the wall-clock counter
OtherValues == {1000000, 4200000}         \* samples of any other counter
Timestamps == {"t1", "t2"}

\* A row of the file: row[0], row[2], row[3], row[4], row[6].
Row(t, p, e, c, v) ==
  [timestamp |-> t, phase |-> p, event_name |-> e, counter_name |-> c, counter_value |-> v]

\* Python's None, where a row is expected.
None == Row("None", "None", "None", "None", 0)

\* Rows offered to recursive mode: row[0] is never read there, so it is held fixed.
RecursiveRows ==
  { Row("t1", p, e, WallClock, v) : p \in Phases, e \in EventNames, v \in DelimiterValues }
    \cup
  { Row("t1", p, e, OtherCounter, v) : p \in Phases, e \in EventNames, v \in OtherValues }

\* Rows offered to flat mode: row[6] is never read there, so it is held fixed.
FlatRows ==
  { Row(t, p, e, c, 1000000) : t \in Timestamps, p \in Phases, e \in EventNames, c \in CounterNames }

VARIABLES
  mode,          \* which of the two scripts runs: "recursive" or "flat"
  rows,          \* the rows the csv reader has handed out so far, in file order
  exhausted,     \* the csv reader has raised StopIteration
  last_row,      \* global last_row
  calls,         \* output_lines of every live activation, outermost first
  pending,       \* (event_name, counter_value) of every suspended activation
  output_lines,  \* module-level output_lines after the outermost call returned
  exit_row,      \* module-level exit_row after the outermost call returned
  stdout,        \* lines printed
  status,        \* "running", "done", "AssertionError:45", "AssertionError:57",
                 \* "FatalConsistencyError" (flat mode)
  event_name_stack,        \* flat mode: names of the open events, outermost first
  last_pushed_key,         \* flat mode
  last_popped_key,         \* flat mode
  max_depth,               \* flat mode
  deepest_stack_snapshot,  \* flat mode
  seen,                    \* Duplicate Detector: Event Key -> counter names observed
  duplicates               \* Duplicate Detector: the rows reported, in order

recursive_vars == <<last_row, calls, pending, output_lines, exit_row>>
flat_vars == <<event_name_stack, last_pushed_key, last_popped_key, max_depth, deepest_stack_snapshot,
               seen, duplicates>>
vars == <<mode, rows, exhausted, stdout, status, recursive_vars, flat_vars>>

\* ------------------------------------------------------ pure parts of the code

\* row[2] == "exit"
is_exit(row) == row.phase = "exit"

\* Seeded fault: the test of line 39, with a counter list that admits every counter.
IsDelimiterAnyCounter(row) == row.counter_name \in CounterNames

\* counter_name == "Frontend.WallClockMicroseconds"
IsDelimiter(row) == row.counter_name = WallClock

\* x / 1000000.0 as Python prints it: sign, whole seconds, microsecond digits.
\* The quotient of an integer below 2^53 by 10^6 prints as the exact decimal.
Abs(x) == IF x < 0 THEN -x ELSE x

\* Seeded fault: integer division, the microsecond digits are lost.
SecondsFloorDiv(micros) ==
  [neg |-> micros < 0, whole |-> Abs(micros) \div MICROS_PER_SECOND, frac |-> 0]

Seconds(micros) ==
  [neg |-> micros < 0,
   whole |-> Abs(micros) \div MICROS_PER_SECOND,
   frac |-> Abs(micros) % MICROS_PER_SECOND]

\* delta_t = (int(end_row[6]) - counter_value)/1000000.0
delta_t(end_row, counter_value) == Seconds(end_row.counter_value - counter_value)

\* Seeded fault: off by one in the print depth limit.
IsPrintedOffByOne(depth) == depth <= MAX_PRINT_DEPTH

\* depth < MAX_PRINT_DEPTH
IsPrinted(depth) == depth < MAX_PRINT_DEPTH

\* Seeded fault: one space per level instead of two.
LineOneSpacePerLevel(depth, event_name, marker, dt) ==
  [indent |-> depth, event_name |-> event_name, marker |-> marker, delta_t |-> dt]

\* "  " * depth + f"{event_name} {delta_t}"   (marker "" or ">=")
Line(depth, event_name, marker, dt) ==
  [indent |-> 2 * depth, event_name |-> event_name, marker |-> marker, delta_t |-> dt]

\* Seeded fault: the closed form is appended outside the depth test.
ClosedLinesUnguarded(depth, event_name, counter_value, x_row) ==
  << Line(depth, event_name, "", delta_t(x_row, counter_value)) >>

\* Lines 46-48: the line of a span whose terminating exit was found.
ClosedLines(depth, event_name, counter_value, x_row) ==
  IF IsPrinted(depth)
  THEN << Line(depth, event_name, "", delta_t(x_row, counter_value)) >>
  ELSE << >>

\* Seeded fault: the open form is rendered without its ">=" marker.
OpenLinesNoMarker(depth, event_name, counter_value, final_row) ==
  IF IsPrinted(depth)
  THEN << Line(depth, event_name, "", delta_t(final_row, counter_value)) >>
  ELSE << >>

\* Lines 50-52: the line of a span still open when the reader ran dry.
OpenLines(depth, event_name, counter_value, final_row) ==
  IF IsPrinted(depth)
  THEN << Line(depth, event_name, ">=", delta_t(final_row, counter_value)) >>
  ELSE << >>

\* Seeded fault: the callee's lines are added before the span's own line.
ExtendChildrenFirst(lines, own, returned_output_lines) == lines \o returned_output_lines \o own

\* Line 53 after 48/52: own line first, then the lines the callee returned.
Extend(lines, own, returned_output_lines) == lines \o own \o returned_output_lines

\* Seeded fault: the name is compared with the wrong column of the exit row.
NameMatchesWrongColumn(x_row, event_name) == x_row.counter_name = event_name

\* Seeded fault: the exit row's name is compared with itself.
NameMatchesItself(x_row, event_name) == x_row.event_name = x_row.event_name

\* Line 45
NameMatches(x_row, event_name) == x_row.event_name = event_name

\* ------------------------------------------------------------------- state

\* last_pushed_key / last_popped_key before any push or pop.
Unset == << >>

Init ==
  /\ mode \in {"recursive", "flat"}
  /\ rows = << >>
  /\ exhausted = FALSE
  /\ stdout = << >>
  /\ status = "running"
  /\ last_row = None
  /\ calls = IF mode = "recursive" THEN << << >> >> ELSE << >>
  /\ pending = << >>
  /\ output_lines = << >>
  /\ exit_row = None
  /\ event_name_stack = << >>
  /\ last_pushed_key = Unset
  /\ last_popped_key = Unset
  /\ max_depth = 0
  /\ deepest_stack_snapshot = << >>
  /\ seen = << >>
  /\ duplicates = << >>

depth == Len(pending)

Top(s) == s[Len(s)]
Pop(s) == SubSeq(s, 1, Len(s) - 1)
ReplaceTop(s, x) == [s EXCEPT ![Len(s)] = x]

\* Seeded fault: the reader hands out rows again after it was exhausted.
CanFetchAfterEnd == mode = "recursive" /\ status = "running" /\ Len(rows) < MaxRows

\* Line 32: the for loop obtains another row from the shared reader.
CanFetch == mode = "recursive" /\ status = "running" /\ ~exhausted /\ Len(rows) < MaxRows

\* Seeded fault: last_row is only set for rows of the delimiter counter.
ReadOtherKeepsLastRow(row) ==
  /\ CanFetch
  /\ ~IsDelimiter(row)
  /\ rows' = Append(rows, row)
  /\ UNCHANGED <<mode, exhausted, stdout, status, recursive_vars, flat_vars>>

\* Lines 32-40: a row of another counter only becomes last_row.
ReadOther(row) ==
  /\ CanFetch
  /\ ~IsDelimiter(row)
  /\ rows' = Append(rows, row)
  /\ last_row' = row
  /\ UNCHANGED <<mode, exhausted, calls, pending, output_lines, exit_row, stdout, status, flat_vars>>

\* Lines 32-43: a delimiter entry row starts a nested activation.
ReadEntry(row) ==
  /\ CanFetch
  /\ IsDelimiter(row)
  /\ ~is_exit(row)
  /\ rows' = Append(rows, row)
  /\ last_row' = row
  /\ pending' = Append(pending, [event_name |-> row.event_name, counter_value |-> row.counter_value])
  /\ calls' = Append(calls, << >>)
  /\ UNCHANGED <<mode, exhausted, output_lines, exit_row, stdout, status, flat_vars>>

\* Seeded fault: the name assertion sits inside the print depth test.
ReadExitNestedChecksPrintedOnly(row) ==
  /\ CanFetch
  /\ IsDelimiter(row)
  /\ is_exit(row)
  /\ depth > 0
  /\ rows' = Append(rows, row)
  /\ last_row' = row
  /\ LET p == Top(pending)
         caller == calls[Len(calls) - 1]
     IN IF IsPrinted(depth - 1) => NameMatches(row, p.event_name)
        THEN /\ calls' = ReplaceTop(Pop(calls),
                           Extend(caller,
                                  ClosedLines(depth - 1, p.event_name, p.counter_value, row),
                                  Top(calls)))
             /\ pending' = Pop(pending)
             /\ status' = status
        ELSE /\ status' = "AssertionError:45"
             /\ UNCHANGED <<calls, pending>>
  /\ UNCHANGED <<mode, exhausted, output_lines, exit_row, stdout, flat_vars>>

\* Lines 41-48, 53: a delimiter exit row ends the active activation; its caller
\* checks the name and adds the closed span's line.
ReadExitNested(row) ==
  /\ CanFetch
  /\ IsDelimiter(row)
  /\ is_exit(row)
  /\ depth > 0
  /\ rows' = Append(rows, row)
  /\ last_row' = row
  /\ LET p == Top(pending)
         caller == calls[Len(calls) - 1]
     IN IF NameMatches(row, p.event_name)
        THEN /\ calls' = ReplaceTop(Pop(calls),
                           Extend(caller,
                                  ClosedLines(depth - 1, p.event_name, p.counter_value, row),
                                  Top(calls)))
             /\ pending' = Pop(pending)
             /\ status' = status
        ELSE /\ status' = "AssertionError:45"
             /\ UNCHANGED <<calls, pending>>
  /\ UNCHANGED <<mode, exhausted, output_lines, exit_row, stdout, flat_vars>>

\* Seeded fault: the outermost result is printed without the check of line 57.
ReadExitTopUnchecked(row) ==
  /\ CanFetch
  /\ IsDelimiter(row)
  /\ is_exit(row)
  /\ depth = 0
  /\ rows' = Append(rows, row)
  /\ last_row' = row
  /\ output_lines' = Top(calls)
  /\ exit_row' = row
  /\ calls' = << >>
  /\ stdout' = Top(calls)
  /\ status' = "done"
  /\ UNCHANGED <<mode, exhausted, pending, flat_vars>>

\* Seeded fault: the lines are printed before the check of line 57.
ReadExitTopPrintsFirst(row) ==
  /\ CanFetch
  /\ IsDelimiter(row)
  /\ is_exit(row)
  /\ depth = 0
  /\ rows' = Append(rows, row)
  /\ last_row' = row
  /\ output_lines' = Top(calls)
  /\ exit_row' = row
  /\ calls' = << >>
  /\ stdout' = Top(calls)
  /\ status' = "AssertionError:57"
  /\ UNCHANGED <<mode, exhausted, pending, flat_vars>>

\* Lines 41-42, 56-57: a delimiter exit row read by the outermost activation.
ReadExitTop(row) ==
  /\ CanFetch
  /\ IsDelimiter(row)
  /\ is_exit(row)
  /\ depth = 0
  /\ rows' = Append(rows, row)
  /\ last_row' = row
  /\ output_lines' = Top(calls)
  /\ exit_row' = row
  /\ calls' = << >>
  /\ status' = "AssertionError:57"
  /\ UNCHANGED <<mode, exhausted, pending, stdout, flat_vars>>

\* Lines 32, 54, 44, 49-53: the reader is empty, the active nested activation
\* returns None and its caller adds the open span's line.
EndNested ==
  /\ mode = "recursive"
  /\ status = "running"
  /\ depth > 0
  /\ exhausted' = TRUE
  /\ LET p == Top(pending)
         caller == calls[Len(calls) - 1]
     IN /\ calls' = ReplaceTop(Pop(calls),
                      Extend(caller,
                             OpenLines(depth - 1, p.event_name, p.counter_value, last_row),
                             Top(calls)))
        /\ pending' = Pop(pending)
  /\ UNCHANGED <<mode, rows, last_row, output_lines, exit_row, stdout, status, flat_vars>>

\* Lines 32, 54, 56-59: the outermost activation returns None; lines are printed.
EndTop ==
  /\ mode = "recursive"
  /\ status = "running"
  /\ depth = 0
  /\ exhausted' = TRUE
  /\ output_lines' = Top(calls)
  /\ exit_row' = None
  /\ calls' = << >>
  /\ stdout' = Top(calls)
  /\ status' = "done"
  /\ UNCHANGED <<mode, rows, last_row, pending, flat_vars>>

\* ------------------------------------------------------------- flat mode

\* Columns 0-3 of a row; column 1 is the same in every row offered and left out.
EventKey(row) == << row.timestamp, row.phase, row.event_name >>

\* Seeded fault: the detector looks at the Event Key only, not at the counter.
IsDuplicateOfAnyCounter(row) == EventKey(row) \in DOMAIN seen

\* "its counter_name is already present in the set for its Event Key"
IsDuplicate(row) ==
  EventKey(row) \in DOMAIN seen /\ row.counter_name \in seen[EventKey(row)]

\* "Otherwise add the counter name to the set."
Remember(row) ==
  [k \in DOMAIN seen \cup {EventKey(row)} |->
     IF k = EventKey(row)
     THEN (IF k \in DOMAIN seen THEN seen[k] ELSE {}) \cup {row.counter_name}
     ELSE seen[k]]

\* The Duplicate Detector's step on a row; it never stops the run.
DuplicateDetector(row) ==
  IF IsDuplicate(row)
  THEN /\ duplicates' = Append(duplicates, row)
       /\ seen' = seen
  ELSE /\ duplicates' = duplicates
       /\ seen' = Remember(row)

\* A printed Event Key, indented by a stack depth.
KeyLine(d, key) == [indent |-> 2 * d, key |-> key]

\* "differs from last_pushed_key" / "differs from last_popped_key"
Differs(key, last_key) == key # last_key

\* "stack is non-empty AND the name at the top of the stack equals event_name"
TopIs(stack, event_name) == Len(stack) > 0 /\ stack[Len(stack)] = event_name

\* Seeded fault: the snapshot is taken but max_depth is not raised.
TrackDepthSnapshotOnly(stack) ==
  IF Len(stack) > max_depth
  THEN /\ max_depth' = max_depth
       /\ deepest_stack_snapshot' = stack
  ELSE UNCHANGED <<max_depth, deepest_stack_snapshot>>

\* Seeded fault: max_depth is raised but the snapshot is not taken.
TrackDepthNoSnapshot(stack) ==
  IF Len(stack) > max_depth
  THEN /\ max_depth' = Len(stack)
       /\ deepest_stack_snapshot' = deepest_stack_snapshot
  ELSE UNCHANGED <<max_depth, deepest_stack_snapshot>>

\* "if stack length exceeds max_depth, update max_depth and snapshot"
TrackDepth(stack) ==
  IF Len(stack) > max_depth
  THEN /\ max_depth' = Len(stack)
       /\ deepest_stack_snapshot' = stack
  ELSE UNCHANGED <<max_depth, deepest_stack_snapshot>>

FlatCanFetch == mode = "flat" /\ status = "running" /\ ~exhausted /\ Len(rows) < MaxRows

\* phase == entry
FlatEntry(row) ==
  /\ FlatCanFetch
  /\ ~is_exit(row)
  /\ rows' = Append(rows, row)
  /\ DuplicateDetector(row)
  /\ IF Differs(EventKey(row), last_pushed_key)
     THEN /\ stdout' = Append(stdout, KeyLine(Len(event_name_stack), EventKey(row)))
          /\ event_name_stack' = Append(event_name_stack, row.event_name)
          /\ last_pushed_key' = EventKey(row)
     ELSE UNCHANGED <<stdout, event_name_stack, last_pushed_key>>
  /\ TrackDepth(event_name_stack')
  /\ UNCHANGED <<mode, exhausted, status, last_popped_key, recursive_vars>>

\* phase == exit
FlatExit(row) ==
  /\ FlatCanFetch
  /\ is_exit(row)
  /\ rows' = Append(rows, row)
  /\ DuplicateDetector(row)
  /\ IF Differs(EventKey(row), last_popped_key)
     THEN IF TopIs(event_name_stack, row.event_name)
          THEN /\ event_name_stack' = Pop(event_name_stack)
               /\ last_popped_key' = EventKey(row)
               /\ stdout' = Append(stdout, KeyLine(Len(event_name_stack) - 1, EventKey(row)))
               /\ status' = status
          ELSE /\ status' = "FatalConsistencyError"
               /\ UNCHANGED <<event_name_stack, last_popped_key, stdout>>
     ELSE UNCHANGED <<event_name_stack, last_popped_key, stdout, status>>
  /\ IF status' = "running"
     THEN TrackDepth(event_name_stack')
     ELSE UNCHANGED <<max_depth, deepest_stack_snapshot>>
  /\ UNCHANGED <<mode, exhausted, last_pushed_key, recursive_vars>>

\* End of input: the final stack, max_depth and deepest_stack_snapshot are reported.
FlatEnd ==
  /\ mode = "flat"
  /\ status = "running"
  /\ exhausted' = TRUE
  /\ status' = "done"
  /\ UNCHANGED <<mode, rows, stdout, recursive_vars, flat_vars>>

Next ==
  \/ \E row \in RecursiveRows : ReadOther(row)
  \/ \E row \in RecursiveRows : ReadEntry(row)
  \/ \E row \in RecursiveRows : ReadExitNested(row)
  \/ \E row \in RecursiveRows : ReadExitTop(row)
  \/ EndNested
  \/ EndTop
  \/ \E row \in FlatRows : FlatEntry(row)
  \/ \E row \in FlatRows : FlatExit(row)
  \/ FlatEnd

Spec == Init /\ [][Next]_vars

\* The script is one sequential thread: while a step is possible, one is taken.
FairSpec == Spec /\ WF_vars(Next)

\* ------------------------------------------------ what the input itself says
\* The definitions below read only the rows of the file, never the program state.

IsDelimiterRow(r) == r.counter_name = "Frontend.WallClockMicroseconds"
IsEntryRow(r) == r.phase = "entry"
IsExitRow(r) == r.phase = "exit"

\* Does row r take part in the nesting structure of a mode-m run?
Structural(m, r) == m = "flat" \/ IsDelimiterRow(r)

\* Positions of the entries still open after the first n rows, outermost first.
RECURSIVE OpenSpans(_, _, _)
OpenSpans(m, rs, n) ==
  IF n = 0 THEN << >>
  ELSE LET s == OpenSpans(m, rs, n - 1)
           r == rs[n]
       IN IF ~Structural(m, r) THEN s
          ELSE IF IsEntryRow(r) THEN Append(s, n)
          ELSE IF s = << >> THEN s
          ELSE SubSeq(s, 1, Len(s) - 1)

\* Row n is not an exit that lacks an open entry or names another event than
\* the innermost open entry.
RowNests(m, rs, n) ==
  (Structural(m, rs[n]) /\ IsExitRow(rs[n])) =>
     LET s == OpenSpans(m, rs, n - 1)
     IN s # << >> /\ rs[s[Len(s)]].event_name = rs[n].event_name

\* rs is a prefix of a well-formed input.
WellNested(m, rs) == \A n \in 1..Len(rs) : RowNests(m, rs, n)

\* Every entry has a matching, correctly nested exit.
WellFormed(m, rs) == WellNested(m, rs) /\ OpenSpans(m, rs, Len(rs)) = << >>

Entries(m, rs) == { i \in 1..Len(rs) : Structural(m, rs[i]) /\ IsEntryRow(rs[i]) }

NestingDepth(m, rs, i) == Len(OpenSpans(m, rs, i - 1))

\* Position of the exit that terminates the span entered at row i, 0 if none.
ExitOf(m, rs, i) ==
  LET c == { j \in (i + 1)..Len(rs) :
               /\ Structural(m, rs[j]) /\ IsExitRow(rs[j])
               /\ OpenSpans(m, rs, j - 1) # << >>
               /\ OpenSpans(m, rs, j - 1)[Len(OpenSpans(m, rs, j - 1))] = i }
  IN IF c = {} THEN 0 ELSE CHOOSE j \in c : \A k \in c : j <= k

Fatal == {"AssertionError:45", "AssertionError:57", "FatalConsistencyError"}

\* --------------------------------------------------------------------- C1
\* C1: recursive mode, well-formed input: the run never fails an assertion, and
\* when the outermost call has returned it did so on the exhausted reader with
\* no terminating exit (None).
C1_WellFormedReturnsNone ==
  (mode = "recursive" /\ WellFormed("recursive", rows)) =>
     /\ status \notin Fatal
     /\ status = "done" => (exhausted /\ exit_row = None /\ calls = << >>)

\* A finished run over a well-formed input with a span nested in another.
C1_Witness ==
  /\ mode = "recursive" /\ status = "done"
  /\ WellFormed("recursive", rows)
  /\ \E i \in Entries("recursive", rows) : NestingDepth("recursive", rows, i) = 1
  /\ exit_row = None

\* --------------------------------------------------------------------- C2
\* The last row read, and the rows before it.
LastRead == rows[Len(rows)]
Before == SubSeq(rows, 1, Len(rows) - 1)

\* The last row read is an exit naming another event than the innermost entry
\* that the rows before it leave open.
ExitMismatchesInnermost ==
  /\ rows # << >>
  /\ Structural(mode, LastRead) /\ IsExitRow(LastRead)
  /\ LET s == OpenSpans(mode, rows, Len(rows) - 1)
     IN s # << >> /\ rows[s[Len(s)]].event_name # LastRead.event_name

\* C2 as stated: in both modes every exit row that names another event than the
\* innermost open entry raises a fatal consistency error.
C2_AsStated == ExitMismatchesInnermost => status \in Fatal

\* C2, amended: in recursive mode every delimiter exit row naming another event
\* than the innermost open entry fails the assertion of line 45, at every depth;
\* in flat mode an exit row naming another event than the top of the stack is
\* fatal whenever its Event Key differs from last_popped_key.
C2_MismatchIsFatal ==
  [][ /\ (mode = "recursive" /\ rows' # rows /\ ExitMismatchesInnermost')
         => status' = "AssertionError:45"
      /\ (/\ mode = "flat" /\ rows' # rows /\ IsExitRow(LastRead')
          /\ EventKey(LastRead') # last_popped_key
          /\ event_name_stack # << >>
          /\ event_name_stack[Len(event_name_stack)] # LastRead'.event_name)
         => status' = "FatalConsistencyError" ]_vars

\* A mismatching exit two levels down, after a sibling span was closed.
C2_Witness ==
  /\ mode = "recursive" /\ status = "AssertionError:45"
  /\ ExitMismatchesInnermost
  /\ Len(OpenSpans("recursive", rows, Len(rows) - 1)) = 2

\* --------------------------------------------------------------------- C3
\* C3: recursive mode: a delimiter exit row read while no span is open makes the
\* outermost call return that row, which fails the assertion of line 57; a run
\* is "done" only with the reader exhausted and None as the terminating exit.
C3_UnmatchedExitIsFatal ==
  mode = "recursive" =>
    /\ (/\ rows # << >>
        /\ IsDelimiterRow(LastRead) /\ IsExitRow(LastRead)
        /\ OpenSpans("recursive", rows, Len(rows) - 1) = << >>)
       => (status = "AssertionError:57" /\ exit_row = LastRead /\ stdout = << >>)
    /\ status = "done" => (exhausted /\ exit_row = None)

\* An exit row with no open span, after a span was closed.
C3_Witness ==
  /\ mode = "recursive" /\ status = "AssertionError:57"
  /\ Len(rows) >= 3 /\ exit_row = LastRead
  /\ Entries("recursive", rows) # {}

\* --------------------------------------------------------------------- C4
RECURSIVE Ascending(_)
Ascending(S) ==
  IF S = {} THEN << >>
  ELSE LET m == CHOOSE x \in S : \A y \in S : x <= y
       IN << m >> \o Ascending(S \ {m})

\* Entry rows of spans above the print depth limit, in file order.
PrintedEntries(rs) ==
  Ascending({ i \in Entries("recursive", rs) : NestingDepth("recursive", rs, i) < MAX_PRINT_DEPTH })

\* C4: recursive mode: a prefix of a well-formed input never fails an assertion,
\* and in the printed output a span carries ">=" exactly when its exit is missing.
C4_TruncatedTraceIsNoError ==
  (mode = "recursive" /\ WellNested("recursive", rows)) =>
     /\ status \notin Fatal
     /\ status = "done" =>
          /\ Len(stdout) = Len(PrintedEntries(rows))
          /\ \A k \in 1..Len(stdout) :
                stdout[k].marker =
                  IF ExitOf("recursive", rows, PrintedEntries(rows)[k]) = 0 THEN ">=" ELSE ""

\* A truncated trace: one closed span, then a span left open.
C4_Witness ==
  /\ mode = "recursive" /\ status = "done"
  /\ ~WellFormed("recursive", rows)
  /\ \E k \in 1..Len(stdout) : stdout[k].marker = ">="
  /\ \E k \in 1..Len(stdout) : stdout[k].marker = ""

\* --------------------------------------------------------------------- C5
\* The number of microseconds a printed duration stands for.
MicrosOf(d) == (IF d.neg THEN -1 ELSE 1) * (d.whole * 1000000 + d.frac)

\* d is the decimal Python prints: six digits at most after the point, no "-0.0".
IsDecimal(d) == d.whole >= 0 /\ d.frac \in 0..999999 /\ (d.neg => d.whole + d.frac > 0)

\* C5: recursive mode: the line of a span whose terminating exit was read shows
\* (exit counter value - entry counter value) microseconds as seconds, whatever
\* is nested inside the span; entry 1,000,000 and exit 3,500,000 give 2.5.
C5_ClosedSpanDuration ==
  (mode = "recursive" /\ status = "done") =>
     /\ Len(stdout) = Len(PrintedEntries(rows))
     /\ \A k \in 1..Len(stdout) :
          LET i == PrintedEntries(rows)[k]
              j == ExitOf("recursive", rows, i)
          IN j # 0 =>
               /\ IsDecimal(stdout[k].delta_t)
               /\ MicrosOf(stdout[k].delta_t) = rows[j].counter_value - rows[i].counter_value
               /\ (rows[i].counter_value = 1000000 /\ rows[j].counter_value = 3500000)
                    => stdout[k].delta_t = [neg |-> FALSE, whole |-> 2, frac |-> 500000]

\* A closed span of 2.5 seconds with a closed child span inside it.
C5_Witness ==
  /\ mode = "recursive" /\ status = "done" /\ Len(rows) = 4
  /\ ExitOf("recursive", rows, 1) = 4 /\ ExitOf("recursive", rows, 2) = 3
  /\ stdout[1].delta_t = [neg |-> FALSE, whole |-> 2, frac |-> 500000]
  /\ stdout[1].marker = ""

\* --------------------------------------------------------------------- C6
\* C6: recursive mode: the line of a span still open at the end of input shows
\* ">=" and (counter value of the last row of the file - entry counter value)
\* microseconds as seconds, the last row being of any counter, phase and event;
\* entry 1,000,000 and last row 4,200,000 give ">=3.2".
C6_OpenSpanLowerBound ==
  (mode = "recursive" /\ status = "done") =>
     /\ Len(stdout) = Len(PrintedEntries(rows))
     /\ \A k \in 1..Len(stdout) :
          LET i == PrintedEntries(rows)[k]
          IN ExitOf("recursive", rows, i) = 0 =>
               /\ stdout[k].marker = ">="
               /\ IsDecimal(stdout[k].delta_t)
               /\ MicrosOf(stdout[k].delta_t) = rows[Len(rows)].counter_value - rows[i].counter_value
               /\ (rows[i].counter_value = 1000000 /\ rows[Len(rows)].counter_value = 4200000)
                    => stdout[k].delta_t = [neg |-> FALSE, whole |-> 3, frac |-> 200000]

\* Two nested open spans, both measured against a final row of another counter.
C6_Witness ==
  /\ mode = "recursive" /\ status = "done"
  /\ Len(rows) >= 3 /\ Len(stdout) = 2
  /\ ~IsDelimiterRow(rows[Len(rows)])
  /\ stdout[1].marker = ">=" /\ stdout[2].marker = ">="
  /\ stdout[1].delta_t = [neg |-> FALSE, whole |-> 3, frac |-> 200000]
  /\ stdout[2].delta_t # stdout[1].delta_t

\* --------------------------------------------------------------------- C7
\* Entry c is a child of the span entered at row i.
IsChild(rs, i, c) ==
  /\ c \in Entries("recursive", rs)
  /\ OpenSpans("recursive", rs, c - 1) # << >>
  /\ OpenSpans("recursive", rs, c - 1)[Len(OpenSpans("recursive", rs, c - 1))] = i

\* C7 as stated: a span at depth >= MAX_PRINT_DEPTH has no line of its own but
\* the lines of its children are in the output.
C7_AsStated ==
  (mode = "recursive" /\ status = "done") =>
     \A i \in Entries("recursive", rows) :
        NestingDepth("recursive", rows, i) >= MAX_PRINT_DEPTH =>
           \A c \in Entries("recursive", rows) :
              IsChild(rows, i, c) =>
                 \E k \in 1..Len(stdout) :
                    /\ stdout[k].event_name = rows[c].event_name
                    /\ stdout[k].indent = 2 * NestingDepth("recursive", rows, c)

\* C7, amended: a span at depth >= MAX_PRINT_DEPTH never contributes a line, and
\* neither does any span nested in it: an activation that collects the spans of
\* depth >= MAX_PRINT_DEPTH holds no line at any time, and every line held by a
\* shallower activation belongs to its own depth or to a deeper printed one.
C7_SuppressedSubtreeIsSilent ==
  mode = "recursive" =>
     /\ \A a \in 1..Len(calls) :
          /\ a - 1 >= MAX_PRINT_DEPTH => calls[a] = << >>
          /\ \A k \in 1..Len(calls[a]) :
                calls[a][k].indent \in { 2 * d : d \in (a - 1)..(MAX_PRINT_DEPTH - 1) }
     /\ \A k \in 1..Len(stdout) : stdout[k].indent < 2 * MAX_PRINT_DEPTH

\* A finished run with a span at depth MAX_PRINT_DEPTH and a child inside it.
C7_Witness ==
  /\ mode = "recursive" /\ status = "done"
  /\ \E i, c \in Entries("recursive", rows) :
        /\ NestingDepth("recursive", rows, i) = MAX_PRINT_DEPTH
        /\ IsChild(rows, i, c)
  /\ Len(stdout) = MAX_PRINT_DEPTH

\* --------------------------------------------------------------------- C8
\* How many lines of the output show name e at indentation n.
CountLines(n, e) == Cardinality({ k \in 1..Len(stdout) : stdout[k].indent = n /\ stdout[k].event_name = e })

\* How many entry rows of event e lie at nesting depth d.
CountEntries(d, e) ==
  Cardinality({ i \in Entries("recursive", rows) :
                  NestingDepth("recursive", rows, i) = d /\ rows[i].event_name = e })

\* C8: recursive mode, finished run: every delimiter entry row at depth below
\* MAX_PRINT_DEPTH has exactly one line, entry rows at depth MAX_PRINT_DEPTH or
\* more have none, and no line is indented by MAX_PRINT_DEPTH levels or more.
C8_PrintDepthBound ==
  (mode = "recursive" /\ status = "done") =>
     /\ \A d \in 0..MaxRows : \A e \in EventNames :
          CountLines(2 * d, e) = IF d < MAX_PRINT_DEPTH THEN CountEntries(d, e) ELSE 0
     /\ \A k \in 1..Len(stdout) :
          /\ stdout[k].indent \in { 2 * d : d \in 0..(MAX_PRINT_DEPTH - 1) }
          /\ stdout[k].marker \in {"", ">="}

\* A closed span at depth MAX_PRINT_DEPTH, hidden, inside two printed ones.
C8_Witness ==
  /\ mode = "recursive" /\ status = "done"
  /\ \E i \in Entries("recursive", rows) :
        /\ NestingDepth("recursive", rows, i) = MAX_PRINT_DEPTH
        /\ ExitOf("recursive", rows, i) # 0
  /\ Len(stdout) = 2

\* --------------------------------------------------------------------- C9
\* The line the span entered at row i should show.
ExpectedLine(rs, i) ==
  LET j == ExitOf("recursive", rs, i)
      last == IF j = 0 THEN Len(rs) ELSE j
  IN [indent |-> 2 * NestingDepth("recursive", rs, i),
      event_name |-> rs[i].event_name,
      marker |-> IF j = 0 THEN ">=" ELSE "",
      micros |-> rs[last].counter_value - rs[i].counter_value]

Shown(line) ==
  [indent |-> line.indent, event_name |-> line.event_name,
   marker |-> line.marker, micros |-> MicrosOf(line.delta_t)]

\* C9: recursive mode: the lines are printed in the file order of the entry rows
\* they belong to, so a span precedes its descendants and siblings keep their
\* order, although a line is only built once the span's exit has been read.
C9_PreOrder ==
  (mode = "recursive" /\ status = "done") =>
     /\ Len(stdout) = Len(PrintedEntries(rows))
     /\ \A k \in 1..Len(stdout) : Shown(stdout[k]) = ExpectedLine(rows, PrintedEntries(rows)[k])

\* A parent with two different child spans, the parent's line built last.
C9_Witness ==
  /\ mode = "recursive" /\ status = "done"
  /\ Len(stdout) = 3
  /\ stdout[1].indent = 0 /\ stdout[2].indent = 2 /\ stdout[3].indent = 2
  /\ stdout[2] # stdout[3]

\* -------------------------------------------------------------------- C10
RowKey(r) == << r.timestamp, r.phase, r.event_name >>

\* No two rows carry the same Event Key.
DistinctKeys(rs) == \A i, j \in 1..Len(rs) : i # j => RowKey(rs[i]) # RowKey(rs[j])

RECURSIVE MaxOver(_, _)
MaxOver(rs, n) ==
  IF n = 0 THEN 0
  ELSE LET m == MaxOver(rs, n - 1)
           d == Len(OpenSpans("flat", rs, n))
       IN IF d > m THEN d ELSE m

\* The deepest nesting of entry/exit pairs in rs.
TrueMaxDepth(rs) == MaxOver(rs, Len(rs))

FlatResultIsExact ==
  /\ status # "FatalConsistencyError"
  /\ status = "done" =>
       /\ event_name_stack = << >>
       /\ max_depth = TrueMaxDepth(rows)

C11_AsStated ==
  [][ (/\ mode = "flat" /\ rows' # rows
       /\ \E i \in 1..Len(rows) : RowKey(rows[i]) = RowKey(LastRead'))
      => event_name_stack' = event_name_stack ]_vars

\* -------------------------------------------------------------------- C12
\* Row n repeats the Event Key and the counter name of an earlier row.
RepeatsEarlier(rs, n) ==
  \E i \in 1..(n - 1) :
     RowKey(rs[i]) = RowKey(rs[n]) /\ rs[i].counter_name = rs[n].counter_name

RECURSIVE RepeatedRows(_, _)
RepeatedRows(rs, n) ==
  IF n = 0 THEN << >>
  ELSE IF RepeatsEarlier(rs, n)
       THEN Append(RepeatedRows(rs, n - 1), rs[n])
       ELSE RepeatedRows(rs, n - 1)

\* C12: Duplicate Detector: the rows reported are exactly the rows that have an
\* earlier row with the same Event Key and the same counter name, whatever
\* other rows lie before, between or after them.
C12_DuplicateExactlyWhenRepeated ==
  mode = "flat" => duplicates = RepeatedRows(rows, Len(rows))

\* The fourth row repeats the first one; between them a row of the same Event
\* Key for another counter and a row of another Event Key, neither reported.
C12_Witness ==
  /\ mode = "flat" /\ Len(rows) = 4
  /\ rows[4] = rows[1]
  /\ RowKey(rows[2]) = RowKey(rows[1]) /\ rows[2].counter_name # rows[1].counter_name
  /\ RowKey(rows[3]) # RowKey(rows[1])
  /\ duplicates = << rows[4] >>

\* -------------------------------------------------------------------- C13
\* rs without its n-th row.
Without(rs, n) == SubSeq(rs, 1, n - 1) \o SubSeq(rs, n + 1, Len(rs))

\* rs is a well-formed input into which one row was put a second time.
WellFormedButOneDuplicate(m, rs) ==
  \E n \in 2..Len(rs) :
     /\ \E i \in 1..(n - 1) : rs[i] = rs[n]
     /\ WellFormed(m, Without(rs, n))

\* C13 as stated: an input that is well-formed except for one row appearing
\* twice is processed without a fatal consistency error by the reconstruction
\* pass that reads it.
C13_AsStated == WellFormedButOneDuplicate(mode, rows) => status \notin Fatal

\* -------------------------------------------------------------------- C14
\* Event names of the entries rs leaves open, outermost first.
OpenNames(m, rs) ==
  LET s == OpenSpans(m, rs, Len(rs))
  IN [k \in 1..Len(s) |-> rs[s[k]].event_name]

\* max_depth bounds the stack and the snapshot is a stack of that depth.
DepthBookkeeping ==
  /\ max_depth >= Len(event_name_stack)
  /\ Len(deepest_stack_snapshot) = max_depth

C15_OtherCountersOnlySetLastRow ==
  [][ (mode = "recursive" /\ rows' # rows /\ ~IsDelimiterRow(LastRead'))
      => /\ last_row' = LastRead'
         /\ UNCHANGED <<calls, pending, output_lines, exit_row, stdout, status, exhausted>> ]_vars

\* Inside an open span A, an exit row for B of another counter was read: the
\* run goes on at the same depth.
C15_Witness ==
  /\ mode = "recursive" /\ status = "running"
  /\ Len(rows) = 2
  /\ IsDelimiterRow(rows[1]) /\ IsEntryRow(rows[1]) /\ rows[1].event_name = "A"
  /\ ~IsDelimiterRow(rows[2]) /\ IsExitRow(rows[2]) /\ rows[2].event_name = "B"
  /\ last_row = rows[2]
  /\ Len(pending) = 1

\* -------------------------------------------------------------------- C16
\* C16: recursive mode: an exit row naming another event than the innermost open
\* entry fails the assertion of line 45 also when that entry lies at depth
\* MAX_PRINT_DEPTH or deeper, and nothing is printed; a run fails exactly when
\* the rows read are not a prefix of a well-formed input, whatever the depths.
C16_SuppressedSpansAreChecked ==
  mode = "recursive" =>
     /\ (/\ ExitMismatchesInnermost
         /\ Len(OpenSpans("recursive", rows, Len(rows) - 1)) - 1 >= MAX_PRINT_DEPTH)
        => (status = "AssertionError:45" /\ stdout = << >>)
     /\ (status \in Fatal) <=> ~WellNested("recursive", rows)

\* Entries at depth 0, 1 and 2, then an exit that names another event than the
\* entry at depth 2.
C16_Witness ==
  /\ mode = "recursive" /\ status = "AssertionError:45"
  /\ Len(rows) = 4
  /\ Len(OpenSpans("recursive", rows, 3)) = 3
  /\ rows[4].event_name # rows[3].event_name

\* -------------------------------------------------------------------- C17
\* A step reads at most one new row, appended after those already read, and
\* none once the reader is exhausted.
ReadsForward ==
  /\ \/ rows' = rows
     \/ /\ ~exhausted
        /\ Len(rows') = Len(rows) + 1
        /\ SubSeq(rows', 1, Len(rows)) = rows
  /\ exhausted => exhausted'

\* C17: recursive mode: every run ends, normally or by a failed assertion; the
\* read position only advances, one row at a time and never past the end of
\* input, and a run that ends normally has read the input to its end.
C17_SinglePassTerminates ==
  /\ <>(mode = "recursive" => status # "running")
  /\ [][mode = "recursive" => ReadsForward]_vars
  /\ [](mode = "recursive" /\ status = "done" => exhausted)

\* A finished run that read as many rows as the file may hold, across three
\* levels of recursion.
C17_Witness ==
  /\ mode = "recursive" /\ status = "done" /\ exhausted
  /\ Len(rows) = MaxRows
  /\ \E i \in Entries("recursive", rows) : NestingDepth("recursive", rows, i) = 2

\* -------------------------------------------------------------------- C18
\* Entries read so far whose terminating exit has not been read.
OpenNow == OpenSpans("recursive", rows, Len(rows))

\* Every line printed is indented by two spaces per enclosing span.
IndentIsTwicePerEnclosingSpan ==
  status = "done" =>
     /\ Len(stdout) = Len(PrintedEntries(rows))
     /\ \A k \in 1..Len(stdout) :
          stdout[k].indent = 2 * NestingDepth("recursive", rows, PrintedEntries(rows)[k])

\* C18 as stated: recursive mode: the depth of the active call always equals the
\* number of open spans, and lines are indented accordingly.
C18_AsStated ==
  mode = "recursive" =>
     /\ status = "running" => depth = Len(OpenNow)
     /\ IndentIsTwicePerEnclosingSpan

\* C18, amended: until the reader is exhausted the depth of the active call
\* equals the number of open spans, the suspended activations being those of
\* the open entries; once the reader is exhausted the activations return one by
\* one, so the depth is at most that number.  There are never more live
\* activations than open spans plus one, and every line is indented by two
\* spaces per span enclosing it.
C18_DepthIsOpenSpans ==
  mode = "recursive" =>
     /\ (status = "running" /\ ~exhausted) =>
          /\ depth = Len(OpenNow)
          /\ \A k \in 1..depth :
               /\ pending[k].event_name = rows[OpenNow[k]].event_name
               /\ pending[k].counter_value = rows[OpenNow[k]].counter_value
     /\ status = "running" => (depth <= Len(OpenNow) /\ Len(calls) = depth + 1)
     /\ IndentIsTwicePerEnclosingSpan

\* Two spans open after a sibling was closed, the reader not yet exhausted.
C18_Witness ==
  /\ mode = "recursive" /\ status = "running" /\ ~exhausted
  /\ Len(rows) = 4
  /\ depth = 2 /\ Len(OpenNow) = 2
  /\ calls[2] # << >>

\* -------------------------------------------------------------------- C19
\* C19: recursive mode: nothing is printed before the outermost call has returned
\* None: a run that fails an assertion, at line 45 or at line 57, has printed no
\* line, however many spans it had completed.
C19_OutputIsAllOrNothing ==
  mode = "recursive" =>
     /\ status \in Fatal => stdout = << >>
     /\ status = "running" => stdout = << >>
     /\ status = "done" => stdout = output_lines

\* An unmatched exit after a completed top-level span: its line was
\* collected and is not printed.
C19_Witness ==
  /\ mode = "recursive" /\ status = "AssertionError:57"
  /\ Len(output_lines) >= 1
  /\ stdout = << >>

\* -------------------------------------------------------------------- C20
\* The samples of the delimiter counter do not decrease in file order.
DelimiterValuesNonDecreasing(rs) ==
  \A i, j \in 1..Len(rs) :
     (i < j /\ IsDelimiterRow(rs[i]) /\ IsDelimiterRow(rs[j]))
        => rs[i].counter_value <= rs[j].counter_value

\* C20 as stated: recursive mode: when the delimiter counter's values do not
\* decrease in input order, no printed duration is negative, for closed and for
\* open spans, whatever rows of other counters the input contains.
C20_AsStated ==
  (mode = "recursive" /\ status = "done" /\ DelimiterValuesNonDecreasing(rows)) =>
     \A k \in 1..Len(stdout) : ~stdout[k].delta_t.neg

====
